---- MODULE Spec2Model ----
(***************************************************************************)
(* Model of the two document-structure engines of lazyllm's RAG parsers:   *)
(*   CaptionFootnoteParser  (transform/parser/caption.py)                  *)
(*   LayoutNodeParser       (transform/parser/layout.py)                   *)
(*                                                                         *)
(* Text is a sequence of characters; a character is a one-element string.  *)
(* Characters outside ASCII are written as bracketed ASCII tokens, e.g.    *)
(* "<biao>" for U+8868, "<tu>" for U+56FE, "<fwcolon>" for U+FF1A.         *)
(* Regular expressions are values (trees) interpreted by Ends, so every    *)
(* pattern of the source is transcribed, not replaced by its intent.       *)
(***************************************************************************)
EXTENDS Integers, Sequences, FiniteSets, TLC

(* ------------------------------------------------------------------ *)
(* Characters                                                         *)
(* ------------------------------------------------------------------ *)
NL == "\n"

AsciiDigits == {"0", "1", "2", "3", "4", "5", "6", "7", "8", "9"}

FwDigits == {"<fw0>", "<fw1>", "<fw2>", "<fw3>", "<fw4>", "<fw5>", "<fw6>", "<fw7>", "<fw8>", "<fw9>"}

\* \d of a str pattern: every Unicode decimal digit
UniDigits == AsciiDigits \cup FwDigits

\* \s of a str pattern, and the characters str.strip() removes
Whitespace == {" ", "\t", NL, "\r", "<u3000>"}

\* the lower-case form of each upper-case letter
ToLower ==
    [A |-> "a", B |-> "b", C |-> "c", D |-> "d", E |-> "e", F |-> "f", G |-> "g", H |-> "h",
     I |-> "i", J |-> "j", K |-> "k", L |-> "l", M |-> "m", N |-> "n", O |-> "o", P |-> "p",
     Q |-> "q", R |-> "r", S |-> "s", T |-> "t", U |-> "u", V |-> "v", W |-> "w", X |-> "x",
     Y |-> "y", Z |-> "z"]

UpperLetters == DOMAIN ToLower

LowerLetters == {ToLower[c] : c \in UpperLetters}

Letters == UpperLetters \cup LowerLetters

\* str.lower() on one character
LowerChar(c) == IF c \in UpperLetters THEN ToLower[c] ELSE c

\* str.lower()
Lower(s) == [k \in DOMAIN s |-> LowerChar(s[k])]

(* ------------------------------------------------------------------ *)
(* str helpers                                                        *)
(* ------------------------------------------------------------------ *)
RECURSIVE LStrip(_)
LStrip(s) == IF s # <<>> /\ Head(s) \in Whitespace THEN LStrip(Tail(s)) ELSE s

RECURSIVE RStrip(_)
RStrip(s) ==
    IF s # <<>> /\ s[Len(s)] \in Whitespace THEN RStrip(SubSeq(s, 1, Len(s) - 1)) ELSE s

\* str.strip()
Strip(s) == RStrip(LStrip(s))

\* str.startswith(lit)
StartsWith(s, lit) == Len(lit) <= Len(s) /\ SubSeq(s, 1, Len(lit)) = lit

\* lit in s
Contains(s, lit) ==
    \E p \in 1..(Len(s) + 1) : p + Len(lit) - 1 <= Len(s) /\ SubSeq(s, p, p + Len(lit) - 1) = lit

\* str.split('\n')[0]
FirstLine(s) ==
    IF \E p \in DOMAIN s : s[p] = NL
    THEN SubSeq(s, 1, (CHOOSE p \in DOMAIN s : s[p] = NL /\ \A q \in 1..(p - 1) : s[q] # NL) - 1)
    ELSE s

\* '\n'.join(parts)
RECURSIVE JoinLines(_)
JoinLines(parts) ==
    IF parts = <<>> THEN <<>>
    ELSE IF Len(parts) = 1 THEN parts[1]
    ELSE parts[1] \o <<NL>> \o JoinLines(Tail(parts))

(* ------------------------------------------------------------------ *)
(* Regular expressions (Python re, backtracking semantics reduced to  *)
(* the set of positions where a match of the expression can end)      *)
(* ------------------------------------------------------------------ *)
Ch(S) == <<"chr", S>>
NotCh(S) == <<"not", S>>
Cat(rs) == <<"seq", rs>>
Alt(rs) == <<"alt", rs>>
Star(r) == <<"star", r>>
Rep(r, lo, hi) == <<"rep", r, lo, hi>>
Plus(r) == Cat(<<r, Star(r)>>)
Opt(r) == Rep(r, 0, 1)
Lit(s) == Cat([k \in DOMAIN s |-> Ch({s[k]})])
Eol == <<"eol">>
Bol == <<"bol">>
\* . without DOTALL
AnyChar == NotCh({NL})

\* membership of a character in a class; ic is re.IGNORECASE
InClass(c, S, ic) == IF ic THEN \E x \in S : LowerChar(x) = LowerChar(c) ELSE c \in S

RECURSIVE Ends(_, _, _, _)
RECURSIVE EndsSeq(_, _, _, _, _)
RECURSIVE EndsIter(_, _, _, _, _)
RECURSIVE EndsRep(_, _, _, _, _, _)

\* positions (1-based, Len(s)+1 = end) where a match of r that starts at a position of P can end
Ends(r, s, P, ic) ==
    CASE r[1] = "chr" -> {p + 1 : p \in {q \in P : q <= Len(s) /\ InClass(s[q], r[2], ic)}}
      [] r[1] = "not" -> {p + 1 : p \in {q \in P : q <= Len(s) /\ ~InClass(s[q], r[2], ic)}}
      [] r[1] = "seq" -> EndsSeq(r[2], 1, s, P, ic)
      [] r[1] = "alt" -> UNION {Ends(r[2][k], s, P, ic) : k \in DOMAIN r[2]}
      [] r[1] = "star" -> EndsIter(r[2], s, P, P, ic)
      [] r[1] = "rep" -> EndsRep(r[2], r[3], r[4], s, P, ic)
      [] r[1] = "eol" -> {p \in P : p = Len(s) + 1 \/ (p = Len(s) /\ s[p] = NL)}
      [] r[1] = "bol" -> P \cap {1}

EndsSeq(rs, k, s, P, ic) ==
    IF k > Len(rs) \/ P = {} THEN P ELSE EndsSeq(rs, k + 1, s, Ends(rs[k], s, P, ic), ic)

EndsIter(r, s, frontier, acc, ic) ==
    IF frontier = {} THEN acc
    ELSE LET nxt == Ends(r, s, frontier, ic) \ acc
         IN EndsIter(r, s, nxt, acc \cup nxt, ic)

EndsRep(r, lo, hi, s, P, ic) ==
    IF P = {} THEN {}
    ELSE IF lo > 0 THEN EndsRep(r, lo - 1, hi - 1, s, Ends(r, s, P, ic), ic)
    ELSE IF hi = 0 THEN P
    ELSE P \cup EndsRep(r, 0, hi - 1, s, Ends(r, s, P, ic), ic)

\* re.match(pattern, s) is not None
ReMatch(r, s, ic) == Ends(r, s, {1}, ic) # {}

\* re.search(pattern, s) is not None
ReSearch(r, s, ic) == Ends(r, s, 1..(Len(s) + 1), ic) # {}

WS == Ch(Whitespace)
DIGIT == Ch(UniDigits)

(* ------------------------------------------------------------------ *)
(* caption.py: TYPE_CONFIG                                            *)
(* ------------------------------------------------------------------ *)
\* label\s*\d+[\.\-\d]*
NumberedLabel(label) == Cat(<<Lit(label), Star(WS), Plus(DIGIT), Star(Ch({".", "-"} \cup UniDigits))>>)

ImageConfig ==
    [patterns |-> <<NumberedLabel(<<"<tu>">>),
                    NumberedLabel(<<"F", "i", "g", "u", "r", "e">>),
                    NumberedLabel(<<"F", "i", "g", ".">>)>>,
     content_keywords |-> <<(<<"<tu>">>), <<"f", "i", "g", "u", "r", "e">>, <<"f", "i", "g">>>>,
     style_exclude |-> <<(<<"<biao>">>), <<"t", "a", "b", "l", "e">>, <<"t", "a", "b">>,
                         <<"<gong>", "<shi>">>, <<"e", "q", "u", "a", "t", "i", "o", "n">>, <<"e", "q">>>>,
     style_keywords |-> <<(<<"<tu>">>), <<"f", "i", "g", "u", "r", "e">>, <<"c", "a", "p", "t", "i", "o", "n">>,
                          <<"<tu>", "<ti>">>, <<"<tu>", "<biao1>", "<ti>">>,
                          <<"f", "i", "g", "u", "r", "e", " ", "c", "a", "p", "t", "i", "o", "n">>,
                          <<"<ti>", "<zhu>">>>>]

TableConfig ==
    [patterns |-> <<NumberedLabel(<<"<biao>">>),
                    NumberedLabel(<<"T", "a", "b", "l", "e">>),
                    NumberedLabel(<<"T", "a", "b", ".">>)>>,
     content_keywords |-> <<(<<"<biao>">>), <<"t", "a", "b", "l", "e">>, <<"t", "a", "b">>>>,
     style_exclude |-> <<(<<"<tu>">>), <<"f", "i", "g", "u", "r", "e">>, <<"f", "i", "g">>,
                         <<"<gong>", "<shi>">>, <<"e", "q", "u", "a", "t", "i", "o", "n">>, <<"e", "q">>>>,
     style_keywords |-> <<(<<"<biao>">>), <<"t", "a", "b", "l", "e">>, <<"c", "a", "p", "t", "i", "o", "n">>,
                          <<"<biao>", "<ti>">>, <<"<biao>", "<biao1>", "<ti>">>,
                          <<"t", "a", "b", "l", "e", " ", "c", "a", "p", "t", "i", "o", "n">>,
                          <<"<ti>", "<zhu>">>>>]

EquationConfig ==
    [patterns |-> <<NumberedLabel(<<"<gong>", "<shi>">>),
                    NumberedLabel(<<"E", "q", "u", "a", "t", "i", "o", "n">>),
                    NumberedLabel(<<"E", "q", ".">>)>>,
     content_keywords |-> <<(<<"<gong>", "<shi>">>), <<"e", "q", "u", "a", "t", "i", "o", "n">>, <<"e", "q">>>>,
     style_exclude |-> <<(<<"<biao>">>), <<"t", "a", "b", "l", "e">>, <<"t", "a", "b">>,
                         <<"<tu>">>, <<"f", "i", "g", "u", "r", "e">>, <<"f", "i", "g">>>>,
     style_keywords |-> <<(<<"<gong>", "<shi>">>), <<"e", "q", "u", "a", "t", "i", "o", "n">>,
                          <<"c", "a", "p", "t", "i", "o", "n">>, <<"<gong>", "<shi>", "<ti>">>,
                          <<"e", "q", "u", "a", "t", "i", "o", "n", " ", "c", "a", "p", "t", "i", "o", "n">>,
                          <<"<ti>", "<zhu>">>>>]

\* TYPE_CONFIG.get(node_type, TYPE_CONFIG['table'])
TYPE_CONFIG(node_type) ==
    CASE node_type = "image" -> ImageConfig
      [] node_type = "equation" -> EquationConfig
      [] OTHER -> TableConfig

(* ------------------------------------------------------------------ *)
(* DocNode: [id, text, metadata]; metadata is a dict (a function on   *)
(* the keys that are present). id is the object's identity.           *)
(* ------------------------------------------------------------------ *)
\* caption_idx = None
None == -1

\* dict.get(key, default)
Get(m, key, default) == IF key \in DOMAIN m THEN m[key] ELSE default

\* m[key] = value
Put(m, key, value) == [k \in DOMAIN m \cup {key} |-> IF k = key THEN value ELSE m[k]]

\* a style_dict / style_name on which .get or .lower() raises
Malformed == <<"<not-a-str>">>

\* node.metadata.get('style_dict', {}).get('style_name', '').lower(); the dict is flattened to its one key
StyleName(node) == Lower(Get(node.metadata, "style_name", <<>>))

StyleRaises(node) == Get(node.metadata, "style_name", <<>>) = Malformed

\* node.text.strip() if node.text else ''
Content(node) == Strip(node.text)

AnchorTypes == {"image", "table", "equation"}

(* ------------------------------------------------------------------ *)
(* caption.py: _is_caption, _is_footnote                               *)
(* ------------------------------------------------------------------ *)
AnyKeywordIn(keywords, s) == \E k \in DOMAIN keywords : Contains(s, keywords[k])

_is_caption(node, target_type) ==
    LET content == Content(node)
        config == TYPE_CONFIG(target_type)
        style_name == StyleName(node)
    IN IF Get(node.metadata, "type", "") # "text" THEN FALSE
       ELSE IF content = <<>> THEN FALSE
       ELSE IF ~StyleRaises(node) /\ AnyKeywordIn(config.style_exclude, style_name) THEN FALSE
       ELSE IF ~StyleRaises(node) /\ AnyKeywordIn(config.style_keywords, style_name) THEN TRUE
       ELSE \E k \in DOMAIN config.patterns : ReSearch(config.patterns[k], content, TRUE)

Colon == Ch({"<fwcolon>", ":"})

FootnoteStartPatterns ==
    <<Cat(<<Lit(<<"<zhu>">>), Star(WS), Colon, Star(WS)>>),
      Cat(<<Lit(<<"N", "o", "t", "e">>), Star(WS), Colon, Star(WS)>>),
      Cat(<<Lit(<<"<shuo>", "<ming>">>), Star(WS), Colon, Star(WS)>>)>>

FootnoteMarkerPatterns ==
    <<Ch({"*", "<blackstar>", "<whitestar>", "<refmark>"}),
      Ch({"<c1>", "<c2>", "<c3>", "<c4>", "<c5>", "<c6>", "<c7>", "<c8>", "<c9>", "<c10>"}),
      Cat(<<Lit(<<"[">>), Plus(DIGIT), Lit(<<"]">>)>>),
      Cat(<<Lit(<<"(">>), Plus(DIGIT), Lit(<<")">>)>>)>>

FootnoteStyleKeywords ==
    <<(<<"f", "o", "o", "t", "n", "o", "t", "e">>), <<"<jiao>", "<zhu>">>, <<"<wei>", "<zhu>">>,
      <<"n", "o", "t", "e">>, <<"<shuo>", "<ming>">>>>

_is_footnote(node) ==
    LET content == Content(node)
    IN IF Get(node.metadata, "type", "") # "text" THEN FALSE
       ELSE IF content = <<>> THEN FALSE
       ELSE IF ~StyleRaises(node) /\ AnyKeywordIn(FootnoteStyleKeywords, StyleName(node)) THEN TRUE
       ELSE IF \E k \in DOMAIN FootnoteStartPatterns : ReSearch(FootnoteStartPatterns[k], content, TRUE) THEN TRUE
       ELSE \E k \in DOMAIN FootnoteMarkerPatterns : ReSearch(FootnoteMarkerPatterns[k], content, FALSE)

(* ------------------------------------------------------------------ *)
(* caption.py: the score loops of _parse_nodes                        *)
(* ------------------------------------------------------------------ *)
RECURSIVE SumOver(_, _)
\* sum of a sequence of numbers
SumOver(q, k) == IF k > Len(q) THEN 0 ELSE q[k] + SumOver(q, k + 1)

\* for keyword in config['content_keywords']: if content.startswith(keyword): score += 2
KeywordScore(content, node_type) ==
    LET kws == TYPE_CONFIG(node_type).content_keywords
    IN SumOver([k \in DOMAIN kws |-> IF StartsWith(content, kws[k]) THEN 2 ELSE 0], 1)

\* for pattern in config['patterns']: if re.match(pattern, content, re.IGNORECASE): score += 3
PatternScore(content, node_type) ==
    LET pats == TYPE_CONFIG(node_type).patterns
    IN SumOver([k \in DOMAIN pats |-> IF ReMatch(pats[k], content, TRUE) THEN 3 ELSE 0], 1)

CaptionScore(content, node_type) == KeywordScore(content, node_type) + PatternScore(content, node_type)

(* ------------------------------------------------------------------ *)
(* caption.py: the planning pass of _parse_nodes (first loop).        *)
(* Indices are 0-based as in the source; nodes[i] is At(nodes, i).    *)
(* ------------------------------------------------------------------ *)
At(nodes, i) == nodes[i + 1]

TypeOf(node) == Get(node.metadata, "type", "")

\* lines 66-71 without the test of merged_indices
PrevCaptionIdx_NoClaimTest(nodes, i, merged_indices) ==
    IF i > 0 /\ TypeOf(At(nodes, i - 1)) = "text"
             /\ _is_caption(At(nodes, i - 1), TypeOf(At(nodes, i)))
    THEN i - 1 ELSE None

\* lines 66-71
PrevCaptionIdx(nodes, i, merged_indices) ==
    IF i > 0 /\ TypeOf(At(nodes, i - 1)) = "text" /\ (i - 1) \notin merged_indices
             /\ _is_caption(At(nodes, i - 1), TypeOf(At(nodes, i)))
    THEN i - 1 ELSE None

\* lines 73-78 looking at the block two places after the anchor
NextCaptionIdx_TwoAhead(nodes, i, merged_indices) ==
    IF i + 2 < Len(nodes) /\ TypeOf(At(nodes, i + 2)) = "text" /\ (i + 2) \notin merged_indices
             /\ _is_caption(At(nodes, i + 2), TypeOf(At(nodes, i)))
    THEN i + 2 ELSE None

\* lines 73-78
NextCaptionIdx(nodes, i, merged_indices) ==
    IF i + 1 < Len(nodes) /\ TypeOf(At(nodes, i + 1)) = "text" /\ (i + 1) \notin merged_indices
             /\ _is_caption(At(nodes, i + 1), TypeOf(At(nodes, i)))
    THEN i + 1 ELSE None

\* line 107 with > for >=
ChooseCaption_Strict(prev_caption_idx, next_caption_idx, prev_score, next_score) ==
    IF prev_caption_idx # None /\ next_caption_idx # None
    THEN (IF prev_score > next_score THEN prev_caption_idx ELSE next_caption_idx)
    ELSE IF prev_caption_idx # None THEN prev_caption_idx
    ELSE IF next_caption_idx # None THEN next_caption_idx
    ELSE None

\* line 107 and the elif chain of lines 108-111
ChooseCaption(prev_caption_idx, next_caption_idx, prev_score, next_score) ==
    IF prev_caption_idx # None /\ next_caption_idx # None
    THEN (IF prev_score >= next_score THEN prev_caption_idx ELSE next_caption_idx)
    ELSE IF prev_caption_idx # None THEN prev_caption_idx
    ELSE IF next_caption_idx # None THEN next_caption_idx
    ELSE None

\* lines 114-117 with the footnote looked for one block further
CheckStart_OneFurther(i, caption_idx) ==
    IF caption_idx # None /\ caption_idx > i THEN caption_idx + 2 ELSE i + 2

\* lines 114-117 without the move past a caption that follows the anchor
CheckStart_AfterAnchor(i, caption_idx) == i + 1

\* lines 114-117
CheckStart(i, caption_idx) ==
    IF caption_idx # None /\ caption_idx > i THEN caption_idx + 1 ELSE i + 1

\* lines 119-124
FootnoteIdx(nodes, check_start, merged_indices) ==
    IF check_start < Len(nodes) /\ TypeOf(At(nodes, check_start)) = "text"
             /\ check_start \notin merged_indices /\ _is_footnote(At(nodes, check_start))
    THEN check_start ELSE None

\* the locals of one iteration of the first loop on an anchor, lines 59-124
PlanAnchor(nodes, i, merged_indices) ==
    LET node_type == TypeOf(At(nodes, i))
        prev == PrevCaptionIdx(nodes, i, merged_indices)
        next == NextCaptionIdx(nodes, i, merged_indices)
        both == prev # None /\ next # None
        ps == IF both THEN CaptionScore(Content(At(nodes, prev)), node_type) ELSE None
        ns == IF both THEN CaptionScore(Content(At(nodes, next)), node_type) ELSE None
        cap == ChooseCaption(prev, next, ps, ns)
        start == CheckStart(i, cap)
    IN [anchor |-> i, prev_caption_idx |-> prev, next_caption_idx |-> next,
        prev_score |-> ps, next_score |-> ns, caption_idx |-> cap,
        check_start |-> start, footnote_idx |-> FootnoteIdx(nodes, start, merged_indices),
        seen |-> merged_indices]

\* lines 127-128
RecordPlan(merge_info, loc) ==
    IF loc.caption_idx # None \/ loc.footnote_idx # None
    THEN Put(merge_info, loc.anchor, <<loc.caption_idx, loc.footnote_idx>>)
    ELSE merge_info

\* lines 131-134 without the caption
MarkMerged_FootnoteOnly(merged_indices, loc) ==
    merged_indices \cup ({loc.footnote_idx} \ {None})

\* lines 131-134 without the footnote
MarkMerged_CaptionOnly(merged_indices, loc) ==
    merged_indices \cup ({loc.caption_idx} \ {None})

\* lines 131-134
MarkMerged(merged_indices, loc) ==
    merged_indices \cup ({loc.caption_idx, loc.footnote_idx} \ {None})

(* ------------------------------------------------------------------ *)
(* caption.py: _merge_caption_footnote                                *)
(* ------------------------------------------------------------------ *)
\* caption_node = None
NoNode == [id |-> None, text |-> <<>>, metadata |-> [type |-> ""]]

\* the identity of the DocNode constructed from the node with identity id
FreshId(id) == id + 100

CaptionKey(node_type) ==
    CASE node_type = "image" -> "image_caption"
      [] node_type = "table" -> "table_caption"
      [] node_type = "equation" -> "equation_caption"
      [] OTHER -> ""

FootnoteKey(node_type) ==
    CASE node_type = "image" -> "image_footnote"
      [] node_type = "table" -> "table_footnote"
      [] node_type = "equation" -> "equation_footnote"
      [] OTHER -> ""

\* lines 277-298
MergedMetadata(node, caption_text, footnote_text) ==
    LET node_type == TypeOf(node)
        m0 == node.metadata
        m1 == IF caption_text # <<>> /\ CaptionKey(node_type) # ""
              THEN Put(m0, CaptionKey(node_type), caption_text) ELSE m0
        m2 == IF footnote_text # <<>> THEN Put(m1, "footnote", footnote_text) ELSE m1
    IN IF footnote_text # <<>> /\ FootnoteKey(node_type) # ""
       THEN Put(m2, FootnoteKey(node_type), footnote_text) ELSE m2

\* f'![{image_path}]({caption_text})'
ImageMarkdown_PathFirst(caption_text, image_path) ==
    <<"!", "[">> \o image_path \o <<"]", "(">> \o caption_text \o <<")">>

\* f'![{caption_text}]({image_path})'
ImageMarkdown(caption_text, image_path) ==
    <<"!", "[">> \o caption_text \o <<"]", "(">> \o image_path \o <<")">>

\* lines 301-324 with the original content of a table or equation before its caption
TextParts_ContentFirst(node, caption_text, footnote_text, save_image) ==
    LET head == IF TypeOf(node) = "image"
                THEN (IF save_image
                      THEN <<ImageMarkdown(caption_text, Get(node.metadata, "image_path", <<>>))>>
                      ELSE IF caption_text # <<>> THEN <<caption_text>> ELSE <<>>)
                ELSE (IF node.text # <<>> THEN <<node.text>> ELSE <<>>)
                     \o (IF caption_text # <<>> THEN <<caption_text>> ELSE <<>>)
    IN head \o (IF footnote_text # <<>> THEN <<footnote_text>> ELSE <<>>)

\* lines 301-324
TextParts(node, caption_text, footnote_text, save_image) ==
    LET head == IF TypeOf(node) = "image"
                THEN (IF save_image
                      THEN <<ImageMarkdown(caption_text, Get(node.metadata, "image_path", <<>>))>>
                      ELSE IF caption_text # <<>> THEN <<caption_text>> ELSE <<>>)
                ELSE (IF caption_text # <<>> THEN <<caption_text>> ELSE <<>>)
                     \o (IF node.text # <<>> THEN <<node.text>> ELSE <<>>)
    IN head \o (IF footnote_text # <<>> THEN <<footnote_text>> ELSE <<>>)

_merge_caption_footnote(node, caption_node, footnote_node, save_image) ==
    LET caption_text == IF caption_node.id # None THEN Content(caption_node) ELSE <<>>
        footnote_text == IF footnote_node.id # None THEN Content(footnote_node) ELSE <<>>
    IN [id |-> FreshId(node.id),
        text |-> JoinLines(TextParts(node, caption_text, footnote_text, save_image)),
        metadata |-> MergedMetadata(node, caption_text, footnote_text)]

(* ------------------------------------------------------------------ *)
(* caption.py: the merge pass of _parse_nodes (second loop)           *)
(* ------------------------------------------------------------------ *)
\* line 155 with the metadata replaced by the index alone
SetIndex_Replace(node, result) == [node EXCEPT !.metadata = [index |-> Len(result)]]

\* line 155 left out
SetIndex_Keep(node, result) == node

\* result[-1].metadata['index'] = len(result) - 1, applied to the node about to be appended
SetIndex(node, result) == [node EXCEPT !.metadata = Put(node.metadata, "index", Len(result))]

\* lines 144-152 with a new DocNode for every anchor
Emitted_AlwaysMerge(nodes, i, merge_info, save_image) ==
    IF TypeOf(At(nodes, i)) \in AnchorTypes
    THEN _merge_caption_footnote(
             At(nodes, i),
             IF i \in DOMAIN merge_info /\ merge_info[i][1] # None THEN At(nodes, merge_info[i][1]) ELSE NoNode,
             IF i \in DOMAIN merge_info /\ merge_info[i][2] # None THEN At(nodes, merge_info[i][2]) ELSE NoNode,
             save_image)
    ELSE At(nodes, i)

\* lines 144-152
Emitted(nodes, i, merge_info, save_image) ==
    IF i \in DOMAIN merge_info
    THEN _merge_caption_footnote(
             At(nodes, i),
             IF merge_info[i][1] # None THEN At(nodes, merge_info[i][1]) ELSE NoNode,
             IF merge_info[i][2] # None THEN At(nodes, merge_info[i][2]) ELSE NoNode,
             save_image)
    ELSE At(nodes, i)

\* line 140 never taken
Skipped_Never(i, merged_indices) == FALSE

\* line 140
Skipped(i, merged_indices) == i \in merged_indices

RECURSIVE MergeLoop(_, _, _, _, _, _)
\* lines 137-157
MergeLoop(nodes, i, merge_info, merged_indices, save_image, result) ==
    IF i >= Len(nodes) THEN result
    ELSE IF Skipped(i, merged_indices)
    THEN MergeLoop(nodes, i + 1, merge_info, merged_indices, save_image, result)
    ELSE MergeLoop(nodes, i + 1, merge_info, merged_indices, save_image,
                   Append(result, SetIndex(Emitted(nodes, i, merge_info, save_image), result)))

(* ------------------------------------------------------------------ *)
(* layout.py: pattern tables                                          *)
(* ------------------------------------------------------------------ *)
DOT == Ch({".", "<fwdot>"})

CnNumChars == {"<yi>", "<er>", "<san>", "<si>", "<wu>", "<liu>", "<qi>", "<ba>", "<jiu>", "<shi2>",
               "<bai>", "<qian>", "<wan>", "<ling>", "<f1>", "<f2>", "<f3>", "<f4>", "<f5>", "<f6>",
               "<f7>", "<f8>", "<f9>", "<f10>", "<f100>", "<f1000>"}

CN_NUM == Ch(CnNumChars)
AR_NUM == Ch(AsciiDigits \cup FwDigits)
LETTER == Ch(Letters)
SEP_LOOSE == Opt(WS)
INVALID_FOLLOW == NotCh(UniDigits \cup {")", "<fwrparen>", "]", "<rlentic>", "}"})
CONTENT_PATTERN == Cat(<<Star(WS), INVALID_FOLLOW, Star(AnyChar)>>)

\* ^(\s*<di>\s*CN_NUM+\s*([marker]))
NormalTemplate(markers) ==
    Cat(<<Bol, Star(WS), Lit(<<"<di>">>), Star(WS), Plus(CN_NUM), Star(WS), Ch(markers)>>)

NORMAL_TEMPLATES ==
    <<(<<NormalTemplate({"<pian>", "<juan>", "<zhang>"}), 1>>),
      <<NormalTemplate({"<jie>"}), 2>>,
      <<NormalTemplate({"<tiao>"}), 3>>>>

\* group 1 of LETTER_NUMBER_PATTERN
LetterNumberLabel ==
    Cat(<<Bol, Star(WS), LETTER, DOT, Plus(AR_NUM), Star(Cat(<<DOT, Plus(AR_NUM)>>))>>)

\* what follows group 1 in _generate_letter_number_patterns
LetterNumberRest == Cat(<<SEP_LOOSE, CONTENT_PATTERN>>)

DateDigits == Cat(<<Rep(DIGIT, 4, 4), Lit(<<"<nian>">>), Rep(DIGIT, 1, 2), Lit(<<"<yue>">>),
                    Rep(DIGIT, 1, 2), Lit(<<"<ri>">>)>>)

CnDateChars == {"<yi>", "<er>", "<san>", "<si>", "<wu>", "<liu>", "<qi>", "<ba>", "<jiu>", "<shi2>"}

DateCn == Cat(<<Rep(Ch({"<ling>", "<ocircle>", "0", "<fw0>", "<ozero>", "<fwO>", "<omicron>"} \cup CnDateChars), 4, 4),
                Lit(<<"<nian>">>), Rep(Ch(CnDateChars), 1, 2), Lit(<<"<yue>">>),
                Rep(Ch(CnDateChars), 1, 3), Lit(<<"<ri>">>)>>)

DateSep == Ch({".", "<fwdot>", "-"})

\* .{0,100}?\s*\n\s*(date)\s*\n?$
DateOnLastLine(date) ==
    Cat(<<Rep(AnyChar, 0, 100), Star(WS), Lit(<<NL>>), Star(WS), date, Star(WS), Opt(Lit(<<NL>>)), Eol>>)

\* ^\s*(date)\s*$
DateAlone(date) == Cat(<<Bol, Star(WS), date, Star(WS), Eol>>)

TIME_PATTERNS ==
    <<DateOnLastLine(DateDigits),
      DateAlone(DateDigits),
      DateOnLastLine(DateCn),
      DateAlone(DateCn),
      DateAlone(Cat(<<Rep(DIGIT, 4, 4), DateSep, Rep(DIGIT, 1, 2), DateSep, Rep(DIGIT, 1, 2)>>))>>

TOC_PATTERNS ==
    <<Cat(<<Star(AnyChar), Ch({".", "<fwdot>", "<middot>"}), Star(WS), Plus(DIGIT), Star(WS), Eol>>),
      Cat(<<Bol, Star(WS),
            Alt(<<AR_NUM, Plus(Ch({"I", "V", "X"})), Lit(<<"<fu>", "<lu>">>), CN_NUM>>),
            Star(AnyChar), Plus(WS), Plus(DIGIT), Star(WS), Eol>>),
      Cat(<<Bol, Star(WS), Lit(<<"<lbook>">>), Star(AnyChar), Lit(<<"<rbook>">>), Star(AnyChar),
            Plus(WS), Plus(DIGIT), Star(WS), Eol>>)>>

\* num_block * n
RECURSIVE NumBlocks(_)
NumBlocks(n) ==
    IF n = 0 THEN <<>> ELSE <<DOT, Star(WS), Rep(AR_NUM, 1, 3)>> \o NumBlocks(n - 1)

\* pattern_str of _generate_number_patterns_with_level for one level
NumberPattern(level) ==
    IF level = 1
    THEN Cat(<<Bol, Star(WS), Rep(AR_NUM, 1, 2), DOT, SEP_LOOSE, CONTENT_PATTERN>>)
    ELSE Cat(<<Bol, Star(WS), Rep(AR_NUM, 1, 2)>> \o NumBlocks(level - 1) \o <<SEP_LOOSE, CONTENT_PATTERN>>)

\* max_level=4 of line 74
max_level == 4

\* patterns[::-1]: the deepest level first
NUMBER_PATTERNS_WITH_LEVEL ==
    [k \in 1..max_level |-> <<NumberPattern(max_level + 1 - k), max_level + 1 - k>>]

NORMAL_PATTERNS_WITH_LEVEL ==
    [k \in DOMAIN NORMAL_TEMPLATES |-> <<Cat(<<NORMAL_TEMPLATES[k][1], CONTENT_PATTERN>>), NORMAL_TEMPLATES[k][2]>>]

(* ------------------------------------------------------------------ *)
(* layout.py: _match, _calculate_level_by_regex                       *)
(* ------------------------------------------------------------------ *)
\* _match(node, patterns) is truthy
_match(node, patterns) ==
    \E k \in DOMAIN patterns : ReMatch(patterns[k], Strip(node.text), FALSE)

\* len([s for s in re.split(DOT, index_str) if s.strip()])
RECURSIVE SegmentCount(_, _)
SegmentCount(s, seg) ==
    IF s = <<>> THEN (IF Strip(seg) # <<>> THEN 1 ELSE 0)
    ELSE IF Head(s) \in {".", "<fwdot>"}
    THEN (IF Strip(seg) # <<>> THEN 1 ELSE 0) + SegmentCount(Tail(s), <<>>)
    ELSE SegmentCount(Tail(s), Append(seg, Head(s)))

\* re.sub(DOT + '$', '', s)
DropFinalDot(s) ==
    IF s # <<>> /\ s[Len(s)] \in {".", "<fwdot>"} THEN SubSeq(s, 1, Len(s) - 1)
    ELSE IF Len(s) >= 2 /\ s[Len(s)] = NL /\ s[Len(s) - 1] \in {".", "<fwdot>"}
    THEN SubSeq(s, 1, Len(s) - 2) \o <<NL>>
    ELSE s

\* the ends of group 1 after which the rest of the letter pattern matches
LetterLabelEnds(first_line) ==
    {e \in Ends(LetterNumberLabel, first_line, {1}, FALSE) :
        Ends(LetterNumberRest, first_line, {e}, FALSE) # {}}

SetMax(S) == CHOOSE m \in S : \A y \in S : y <= m

\* lines 198-204; the greedy quantifiers of group 1 take the longest label the rest allows
LetterLevel(first_line) ==
    LET label == SubSeq(first_line, 1, SetMax(LetterLabelEnds(first_line)) - 1)
    IN SegmentCount(DropFinalDot(Strip(label)), <<>>)

RECURSIVE FirstLevel(_, _, _)
\* for pattern, level in table: if re.match(pattern, first_line): return level
FirstLevel(table, k, first_line) ==
    IF k > Len(table) THEN 0
    ELSE IF ReMatch(table[k][1], first_line, FALSE) THEN table[k][2]
    ELSE FirstLevel(table, k + 1, first_line)

_calculate_level_by_regex(text) ==
    LET first_line == Strip(FirstLine(Strip(text)))
        by_number == FirstLevel(NUMBER_PATTERNS_WITH_LEVEL, 1, first_line)
    IN IF text = <<>> THEN 0
       ELSE IF by_number > 0 THEN by_number
       ELSE IF LetterLabelEnds(first_line) # {} THEN LetterLevel(first_line)
       ELSE FirstLevel(NORMAL_PATTERNS_WITH_LEVEL, 1, first_line)

(* ------------------------------------------------------------------ *)
(* layout.py: forward, _parse_nodes, _reset_node_index                *)
(* ------------------------------------------------------------------ *)
\* sorted(s, key=...): stable; key[k] is the key of s[k]
StableSort(s, key) ==
    LET rank(k) == 1 + Cardinality({j \in DOMAIN s : key[j] < key[k] \/ (key[j] = key[k] /\ j < k)})
    IN [r \in DOMAIN s |-> s[CHOOSE k \in DOMAIN s : rank(k) = r]]

\* x.metadata.get("file_name", ""): names are numbered in string order, 0 is the empty string
FileName(node) == Get(node.metadata, "file_name", 0)

IndexOf(node) == Get(node.metadata, "index", 0)

RECURSIVE GroupBy(_)
\* itertools.groupby over a list sorted by file name: the runs of equal file name
GroupBy(s) ==
    IF s = <<>> THEN <<>>
    ELSE LET run == CHOOSE n \in 1..Len(s) :
                        /\ \A k \in 1..n : FileName(s[k]) = FileName(s[1])
                        /\ (n < Len(s) => FileName(s[n + 1]) # FileName(s[1]))
         IN <<SubSeq(s, 1, run)>> \o GroupBy(SubSeq(s, run + 1, Len(s)))

\* lines 123-131 without the sort of line 131
SortedGroups_NoIndexSort(document) ==
    GroupBy(StableSort(document, [k \in DOMAIN document |-> FileName(document[k])]))

\* lines 123-131: the groups, each sorted by index
SortedGroups(document) ==
    LET sorted == StableSort(document, [k \in DOMAIN document |-> FileName(document[k])])
        groups == GroupBy(sorted)
    IN [g \in DOMAIN groups |->
           StableSort(groups[g], [k \in DOMAIN groups[g] |-> IndexOf(groups[g][k])])]

\* int(node.metadata.get("text_level", 0))
TextLevel(node) == Get(node.metadata, "text_level", 0)

\* line 156
Finalized(node) == TextLevel(node) > 1

TextScope == <<"1", ".", "2", " ", "S", "c">>
TextScopeToc == <<"1", ".", "2", " ", "S", "c", " ", "6">>
TextDate == <<"2", "0", "2", "4", "-", "3", "-", "5">>
TextIntro == <<"I", "n">>
TextAppendix == <<"A", ".", "1", " ", "x">>

\* the blocks a layout input is drawn from; text_level None is an absent key
LayoutPool ==
    <<[type |-> "text", text |-> TextScope, text_level |-> 1],
      [type |-> "text", text |-> TextScopeToc, text_level |-> 1],
      [type |-> "text", text |-> TextScopeToc, text_level |-> 2],
      [type |-> "text", text |-> TextDate, text_level |-> 3],
      [type |-> "text", text |-> TextIntro, text_level |-> 1],
      [type |-> "text", text |-> TextScopeToc, text_level |-> None],
      [type |-> "table", text |-> TextScopeToc, text_level |-> 1],
      [type |-> "text", text |-> TextAppendix, text_level |-> 1],
      [type |-> "table", text |-> TextScope, text_level |-> 1],
      [type |-> "text", text |-> TextScope, text_level |-> None]>>

\* the texts of the blocks of LayoutPool
LayoutTexts == {LayoutPool[k].text : k \in DOMAIN LayoutPool}

\* the texts of LayoutPool that the test of line 164 accepts, computed once for all states
SuppressedTexts == {t \in LayoutTexts : _match([text |-> t], TIME_PATTERNS \o TOC_PATTERNS)}

\* the value of _calculate_level_by_regex on the texts of LayoutPool, computed once for all states
LevelTable == {<<t, _calculate_level_by_regex(t)>> : t \in LayoutTexts}

\* line 164
Suppressed(node) ==
    IF node.text \in LayoutTexts THEN node.text \in SuppressedTexts
    ELSE _match(node, TIME_PATTERNS \o TOC_PATTERNS)

\* line 174
regex_level(node) ==
    IF node.text \in LayoutTexts THEN (CHOOSE p \in LevelTable : p[1] = node.text)[2]
    ELSE _calculate_level_by_regex(node.text)

\* lines 154-178 without the test of the type at line 173
ParseNode_AnyKind(node) ==
    IF Finalized(node) THEN node
    ELSE IF Suppressed(node)
    THEN [node EXCEPT !.metadata = Put(node.metadata, "text_level", 0)]
    ELSE IF TextLevel(node) = 1 /\ regex_level(node) > 0
    THEN [node EXCEPT !.metadata = Put(node.metadata, "text_level", regex_level(node))]
    ELSE node

\* lines 154-178 with the suppression test moved before the test of line 156
ParseNode_SuppressFirst(node) ==
    IF Suppressed(node)
    THEN [node EXCEPT !.metadata = Put(node.metadata, "text_level", 0)]
    ELSE IF Finalized(node) THEN node
    ELSE IF TextLevel(node) = 1 /\ TypeOf(node) = "text" /\ regex_level(node) > 0
    THEN [node EXCEPT !.metadata = Put(node.metadata, "text_level", regex_level(node))]
    ELSE node

\* lines 154-178 with the level computed before the suppression test
ParseNode_LevelFirst(node) ==
    IF Finalized(node) THEN node
    ELSE IF TextLevel(node) = 1 /\ TypeOf(node) = "text" /\ regex_level(node) > 0
    THEN [node EXCEPT !.metadata = Put(node.metadata, "text_level", regex_level(node))]
    ELSE IF Suppressed(node)
    THEN [node EXCEPT !.metadata = Put(node.metadata, "text_level", 0)]
    ELSE node

\* the body of the loop of _parse_nodes, lines 154-178, on one node
ParseNode(node) ==
    IF Finalized(node) THEN node
    ELSE IF Suppressed(node)
    THEN [node EXCEPT !.metadata = Put(node.metadata, "text_level", 0)]
    ELSE IF TextLevel(node) = 1 /\ TypeOf(node) = "text" /\ regex_level(node) > 0
    THEN [node EXCEPT !.metadata = Put(node.metadata, "text_level", regex_level(node))]
    ELSE node

\* line 83 numbering the blocks from the last to the first
_reset_node_index_Descending(nodes) ==
    [k \in DOMAIN nodes |->
        [nodes[k] EXCEPT !.metadata = Put(nodes[k].metadata, "index", Len(nodes) - k)]]

_reset_node_index(nodes) ==
    [k \in DOMAIN nodes |-> [nodes[k] EXCEPT !.metadata = Put(nodes[k].metadata, "index", k - 1)]]

(* ------------------------------------------------------------------ *)
(* Inputs                                                             *)
(* ------------------------------------------------------------------ *)
\* longest block sequence given to CaptionFootnoteParser
MaxLen == 4

\* longest block sequence given to LayoutNodeParser
MaxDocLen == 3

TextTable1 == <<"T", "a", "b", "l", "e", " ", "1">>
TextLowerTable1 == <<"t", "a", "b", "l", "e", " ", "1">>
TextNote == <<"N", "o", "t", "e", ":", " ", "a">>
\* ends with a blank, which strip() removes
TextStarTable == <<"*", "T", "a", "b", "l", "e", " ", "2", " ">>
TextFig2 == <<"F", "i", "g", ".", " ", "2">>
TextBody == <<"a", "b">>

\* the blocks a caption input is drawn from: kind, content, and image_path where the producer sets one
CaptionPool ==
    <<[type |-> "text", text |-> TextBody],
      [type |-> "text", text |-> TextTable1],
      [type |-> "text", text |-> TextLowerTable1],
      [type |-> "text", text |-> TextNote],
      [type |-> "text", text |-> TextStarTable],
      [type |-> "text", text |-> TextFig2],
      [type |-> "table", text |-> <<"t">>],
      [type |-> "equation", text |-> <<>>],
      [type |-> "image", text |-> <<"i">>, image_path |-> <<"p">>]>>

\* block k of an input: identity k, position k - 1
CaptionNode(tpl, k) ==
    [id |-> k, text |-> tpl.text,
     metadata |-> IF "image_path" \in DOMAIN tpl
                  THEN [type |-> tpl.type, index |-> k - 1, image_path |-> tpl.image_path]
                  ELSE [type |-> tpl.type, index |-> k - 1]]

\* the input of n blocks whose k-th block is CaptionPool[f[k]]
CaptionInput(n, f) == [k \in 1..n |-> CaptionNode(CaptionPool[f[k]], k)]

\* how the producer filled file_name and index
Arrangements == {"one_file", "two_files", "reversed", "no_keys"}

LayoutMetadata(tpl, k, n, arr) ==
    LET m0 == [type |-> tpl.type]
        m1 == IF tpl.text_level # None THEN Put(m0, "text_level", tpl.text_level) ELSE m0
    IN CASE arr = "one_file" -> Put(Put(m1, "file_name", 1), "index", k - 1)
         [] arr = "two_files" -> Put(Put(m1, "file_name", 1 + (k % 2)), "index", (k - 1) \div 2)
         [] arr = "reversed" -> Put(Put(m1, "file_name", 1), "index", n - k)
         [] OTHER -> m1

\* the document of n blocks whose k-th block is LayoutPool[f[k]], its keys filled as arr says
LayoutInput(n, f, arr) ==
    [k \in 1..n |-> [id |-> k, text |-> LayoutPool[f[k]].text,
                     metadata |-> LayoutMetadata(LayoutPool[f[k]], k, n, arr)]]

(* ------------------------------------------------------------------ *)
(* State                                                              *)
(* ------------------------------------------------------------------ *)
VARIABLES
    engine,          \* "caption": CaptionFootnoteParser.forward, "layout": LayoutNodeParser.forward
    pc,              \* position in the running call
    save_image,      \* CaptionFootnoteParser.save_image
    nodes,           \* caption: the argument of _parse_nodes
    i,               \* index of the loop in progress (0-based)
    merge_info,      \* caption: anchor index -> <<caption_idx, footnote_idx>>
    merged_indices,  \* caption: the claimed indices
    loc,             \* caption: the locals of the last iteration on an anchor
    run,             \* 1 in the first call of forward, 2 in the call on the first call's result
    document,        \* layout: the argument of forward, as given
    groups,          \* layout: the groups of forward, their nodes updated in place
    group_idx,       \* layout: the group in progress (1-based)
    result,          \* the list under construction, and the returned list once pc = "done"
    level_text,      \* level: the argument text of _calculate_level_by_regex
    returned_level,  \* level: the value returned by _calculate_level_by_regex
    task_i,          \* layout, one task per group: group -> index of the task's loop (0-based)
    task_result,     \* layout, one task per group: group -> the list the task's _parse_nodes builds
    concurrent_result \* layout: the list returned when the groups were parsed by concurrent tasks

vars == <<engine, pc, save_image, nodes, i, merge_info, merged_indices, loc, run,
          document, groups, group_idx, result, level_text, returned_level,
          task_i, task_result, concurrent_result>>

captionVars == <<save_image, nodes, merge_info, merged_indices, loc, run>>
layoutVars == <<document, groups, group_idx>>
levelVars == <<level_text, returned_level>>
taskVars == <<task_i, task_result, concurrent_result>>

NoLoc == [anchor |-> None, prev_caption_idx |-> None, next_caption_idx |-> None,
          prev_score |-> None, next_score |-> None, caption_idx |-> None,
          check_start |-> None, footnote_idx |-> None, seen |-> {}]

HasImage(s) == \E k \in DOMAIN s : TypeOf(s[k]) = "image"

InitCaption ==
    /\ engine = "caption"
    /\ pc = "plan"
    /\ \E n \in 0..MaxLen : \E f \in [1..n -> DOMAIN CaptionPool] : nodes = CaptionInput(n, f)
    \* save_image is read for image anchors only; it keeps its default without one
    /\ save_image \in (IF HasImage(nodes) THEN BOOLEAN ELSE {TRUE})
    /\ i = 0
    /\ merge_info = <<>>
    /\ merged_indices = {}
    /\ loc = NoLoc
    /\ run = 1
    /\ document = <<>>
    /\ groups = <<>>
    /\ group_idx = 0
    /\ result = <<>>
    /\ level_text = <<>>
    /\ returned_level = None
    /\ task_i = <<>>
    /\ task_result = <<>>
    /\ concurrent_result = <<>>

InitLayout ==
    /\ engine = "layout"
    /\ pc = "group"
    /\ \E n \in 0..MaxDocLen : \E f \in [1..n -> DOMAIN LayoutPool] : \E arr \in Arrangements :
           document = LayoutInput(n, f, arr)
    /\ save_image = TRUE
    /\ nodes = <<>>
    /\ i = 0
    /\ merge_info = <<>>
    /\ merged_indices = {}
    /\ loc = NoLoc
    /\ run = 1
    /\ groups = <<>>
    /\ group_idx = 0
    /\ result = <<>>
    /\ level_text = <<>>
    /\ returned_level = None
    /\ task_i = <<>>
    /\ task_result = <<>>
    /\ concurrent_result = <<>>

Init == InitCaption \/ InitLayout

(* ------------------------------------------------------------------ *)
(* CaptionFootnoteParser._parse_nodes                                 *)
(* ------------------------------------------------------------------ *)
\* lines 43-44
ReturnEmpty ==
    /\ engine = "caption" /\ pc = "plan" /\ nodes = <<>>
    /\ result' = nodes
    /\ pc' = "done"
    /\ UNCHANGED <<engine, i, captionVars, layoutVars, levelVars, taskVars>>

\* lines 52-57: an iteration of the first loop on a block that is no anchor
PlanSkip ==
    /\ engine = "caption" /\ pc = "plan" /\ i < Len(nodes)
    /\ TypeOf(At(nodes, i)) \notin AnchorTypes
    /\ i' = i + 1
    /\ UNCHANGED <<engine, pc, captionVars, layoutVars, result, levelVars, taskVars>>

\* lines 52-134: an iteration of the first loop on an anchor
PlanStep ==
    /\ engine = "caption" /\ pc = "plan" /\ i < Len(nodes)
    /\ TypeOf(At(nodes, i)) \in AnchorTypes
    /\ loc' = PlanAnchor(nodes, i, merged_indices)
    /\ merge_info' = RecordPlan(merge_info, loc')
    /\ merged_indices' = MarkMerged(merged_indices, loc')
    /\ i' = i + 1
    /\ UNCHANGED <<engine, pc, save_image, nodes, run, layoutVars, result, levelVars, taskVars>>

\* lines 137-157: the second loop and the return
MergePass ==
    /\ engine = "caption" /\ pc = "plan" /\ nodes # <<>> /\ i = Len(nodes)
    /\ result' = MergeLoop(nodes, 0, merge_info, merged_indices, save_image, <<>>)
    /\ pc' = "done"
    /\ UNCHANGED <<engine, i, captionVars, layoutVars, levelVars, taskVars>>

\* the caller passes the returned list to forward again
Rerun ==
    /\ engine = "caption" /\ pc = "done" /\ run = 1
    /\ nodes' = result
    /\ run' = 2
    /\ pc' = "plan"
    /\ i' = 0
    /\ merge_info' = <<>>
    /\ merged_indices' = {}
    /\ loc' = NoLoc
    /\ result' = <<>>
    /\ UNCHANGED <<engine, save_image, layoutVars, levelVars, taskVars>>

(* ------------------------------------------------------------------ *)
(* LayoutNodeParser.forward                                           *)
(* ------------------------------------------------------------------ *)
\* lines 121-131
LayoutGroup ==
    /\ engine = "layout" /\ pc = "group"
    /\ groups' = SortedGroups(document)
    /\ group_idx' = 1
    /\ i' = 0
    /\ result' = <<>>
    /\ pc' = "parse"
    /\ UNCHANGED <<engine, captionVars, document, levelVars, taskVars>>

\* lines 134-137 and 154-178: one iteration of the loop of _parse_nodes on the group in progress;
\* result is result_nodes, which receives the group's nodes in this order
LayoutParse ==
    /\ engine = "layout" /\ pc = "parse" /\ group_idx <= Len(groups)
    /\ LET parsed == ParseNode(At(groups[group_idx], i))
           last == i + 1 = Len(groups[group_idx])
       IN /\ groups' = [groups EXCEPT ![group_idx][i + 1] = parsed]
          /\ result' = Append(result, parsed)
          /\ i' = IF last THEN 0 ELSE i + 1
          /\ group_idx' = IF last THEN group_idx + 1 ELSE group_idx
    /\ UNCHANGED <<engine, pc, captionVars, document, levelVars, taskVars>>

\* line 140
LayoutReset ==
    /\ engine = "layout" /\ pc = "parse" /\ group_idx > Len(groups)
    /\ result' = _reset_node_index(result)
    /\ pc' = "done"
    /\ UNCHANGED <<engine, i, captionVars, layoutVars, levelVars, taskVars>>

\* one call of forward, of either engine
Next ==
    \/ ReturnEmpty
    \/ PlanSkip
    \/ PlanStep
    \/ MergePass
    \/ LayoutGroup
    \/ LayoutParse
    \/ LayoutReset

Spec == Init /\ [][Next]_vars

\* CaptionFootnoteParser.forward called on a list, then on the list that call returned
NextRerun ==
    \/ ReturnEmpty
    \/ PlanSkip
    \/ PlanStep
    \/ MergePass
    \/ Rerun

SpecRerun == InitCaption /\ [][NextRerun]_vars

(* ------------------------------------------------------------------ *)
(* LayoutNodeParser.forward called on the list it returned            *)
(* ------------------------------------------------------------------ *)
\* the caller passes the returned list to forward again, line 113
LayoutRerun ==
    /\ engine = "layout" /\ pc = "done" /\ run = 1
    /\ document' = result
    /\ run' = 2
    /\ groups' = <<>>
    /\ group_idx' = 0
    /\ result' = <<>>
    /\ pc' = "group"
    /\ UNCHANGED <<engine, i, save_image, nodes, merge_info, merged_indices, loc, levelVars, taskVars>>

NextLayoutRerun ==
    \/ LayoutGroup
    \/ LayoutParse
    \/ LayoutReset
    \/ LayoutRerun

SpecLayoutRerun == InitLayout /\ [][NextLayoutRerun]_vars

(* ------------------------------------------------------------------ *)
(* LayoutNodeParser.forward with the groups parsed by concurrent      *)
(* tasks, after the sequential call                                   *)
(* ------------------------------------------------------------------ *)
RECURSIVE Concatenate_LastFirst(_)
\* the lists joined from the last group to the first
Concatenate_LastFirst(lists) ==
    IF lists = <<>> THEN <<>> ELSE Concatenate_LastFirst(Tail(lists)) \o Head(lists)

RECURSIVE Concatenate(_)
\* line 137 applied to the tasks' lists in the order of the groups
Concatenate(lists) ==
    IF lists = <<>> THEN <<>> ELSE Head(lists) \o Concatenate(Tail(lists))

\* lines 121-131 on an equal document, then one task per group started on line 134
ConcurrentStart ==
    /\ engine = "layout" /\ pc = "done"
    /\ groups' = SortedGroups(document)
    /\ task_i' = [g \in DOMAIN groups' |-> 0]
    /\ task_result' = [g \in DOMAIN groups' |-> <<>>]
    /\ pc' = "tasks"
    /\ UNCHANGED <<engine, i, captionVars, document, group_idx, result, levelVars, concurrent_result>>

\* lines 154-178: one iteration of the loop of _parse_nodes in the task of group g
TaskStep(g) ==
    /\ engine = "layout" /\ pc = "tasks"
    /\ g \in DOMAIN groups /\ task_i[g] < Len(groups[g])
    /\ LET parsed == ParseNode(At(groups[g], task_i[g]))
       IN /\ groups' = [groups EXCEPT ![g][task_i[g] + 1] = parsed]
          /\ task_result' = [task_result EXCEPT ![g] = Append(@, parsed)]
          /\ task_i' = [task_i EXCEPT ![g] = @ + 1]
    /\ UNCHANGED <<engine, pc, i, captionVars, document, group_idx, result, levelVars, concurrent_result>>

\* lines 137 and 140 once every task has returned
ConcurrentJoin ==
    /\ engine = "layout" /\ pc = "tasks"
    /\ \A g \in DOMAIN groups : task_i[g] = Len(groups[g])
    /\ concurrent_result' = _reset_node_index(Concatenate(task_result))
    /\ pc' = "joined"
    /\ UNCHANGED <<engine, i, captionVars, layoutVars, result, levelVars, task_i, task_result>>

\* forward called on a document, then forward with concurrent tasks on an equal document
NextConcurrent ==
    \/ LayoutGroup
    \/ LayoutParse
    \/ LayoutReset
    \/ ConcurrentStart
    \/ \E g \in 1..MaxDocLen : TaskStep(g)
    \/ ConcurrentJoin

SpecConcurrent == InitLayout /\ [][NextConcurrent]_vars

(* ------------------------------------------------------------------ *)
(* LayoutNodeParser._calculate_level_by_regex called on its own       *)
(* ------------------------------------------------------------------ *)
\* most numeric groups in the label of an argument text
MaxDepth == 5

\* most characters after the label of an argument text
MaxTail == 2

\* the characters that follow a label in the argument texts
TailChars == {".", ")", "]", "}", "2", " ", "x"}

RECURSIVE DecimalLabel(_)
\* "1", "1.2", "1.2.2", ...: d numeric groups
DecimalLabel(d) == IF d = 1 THEN <<"1">> ELSE DecimalLabel(d - 1) \o <<".", "2">>

RECURSIVE Tails(_)
\* the character sequences of length n over TailChars
Tails(n) == IF n = 0 THEN {<<>>} ELSE {Append(t, c) : t \in Tails(n - 1), c \in TailChars}

InitLevel ==
    /\ engine = "level"
    /\ pc = "call"
    /\ \E d \in 1..MaxDepth : \E n \in 0..MaxTail : \E t \in Tails(n) : level_text = DecimalLabel(d) \o t
    /\ returned_level = None
    /\ task_i = <<>>
    /\ task_result = <<>>
    /\ concurrent_result = <<>>
    /\ save_image = TRUE
    /\ nodes = <<>>
    /\ i = 0
    /\ merge_info = <<>>
    /\ merged_indices = {}
    /\ loc = NoLoc
    /\ run = 1
    /\ document = <<>>
    /\ groups = <<>>
    /\ group_idx = 0
    /\ result = <<>>

\* lines 182-211
CalculateLevel ==
    /\ engine = "level" /\ pc = "call"
    /\ returned_level' = _calculate_level_by_regex(level_text)
    /\ pc' = "done"
    /\ UNCHANGED <<engine, i, captionVars, layoutVars, result, level_text, taskVars>>

NextLevel == CalculateLevel

SpecLevel == InitLevel /\ [][NextLevel]_vars

(* ------------------------------------------------------------------ *)
(* Vocabulary of the properties                                       *)
(* ------------------------------------------------------------------ *)
CaptionDone == engine = "caption" /\ pc = "done"
LayoutDone == engine = "layout" /\ pc = "done"

\* an iteration of the first loop on an anchor has just ended
AnchorPlanned == engine = "caption" /\ pc = "plan" /\ loc.anchor # None /\ i = loc.anchor + 1

\* the indices a plan consumes
Consumed(plan) == {plan[1], plan[2]} \ {None}

\* the indices consumed by the plans recorded so far
ClaimedByPlan == UNION {Consumed(merge_info[a]) : a \in DOMAIN merge_info}

\* the block at index j is a caption candidate of the anchor at index a, given the indices claimed before
Qualifies(j, a, claimed) ==
    /\ 0 <= j /\ j < Len(nodes)
    /\ TypeOf(At(nodes, j)) = "text"
    /\ j \notin claimed
    /\ _is_caption(At(nodes, j), TypeOf(At(nodes, a)))

\* the block of document that result[k] is
InputOf(k) == CHOOSE d \in {document[j] : j \in DOMAIN document} : d.id = result[k].id

(* ------------------------------------------------------------------ *)
(* Properties                                                         *)
(* ------------------------------------------------------------------ *)

\* C1: no index is consumed (as caption or footnote) by the plans of two anchors, and the
\* caption and the footnote of one anchor are never the same index.
C1_ClaimExclusivity ==
    engine = "caption" =>
        /\ \A a, b \in DOMAIN merge_info :
               a # b => Consumed(merge_info[a]) \cap Consumed(merge_info[b]) = {}
        /\ \A a \in DOMAIN merge_info :
               merge_info[a][1] # None => merge_info[a][1] # merge_info[a][2]

\* a text block lies between two anchors with plans, was consumed by the first, and is a caption
\* by content for the second one as well
C1_Witness ==
    /\ CaptionDone
    /\ \E a \in DOMAIN merge_info :
           /\ (a + 2) \in DOMAIN merge_info
           /\ (a + 1) \in Consumed(merge_info[a])
           /\ _is_caption(At(nodes, a + 1), TypeOf(At(nodes, a + 2)))

\* C2 as stated: the second call returns its argument, the result of the first call.
C2_Idempotent == (CaptionDone /\ run = 2) => result = nodes

\* C2 amended: the second call returns its argument exactly when its planning pass records no
\* plan; with a plan (an anchor of the first result claims a further neighbour) it is shorter.
C2_IdempotentIffNoPlan ==
    (CaptionDone /\ run = 2) =>
        /\ (DOMAIN merge_info = {}) <=> (result = nodes)
        /\ (DOMAIN merge_info # {}) => Len(result) < Len(nodes)

\* the second call got a list that holds a merged block and returned it as it was
C2_Witness ==
    /\ CaptionDone /\ run = 2
    /\ \E k \in DOMAIN nodes : nodes[k].id > 100
    /\ DOMAIN merge_info = {}
    /\ result = nodes

\* C3: len(output) = len(input) - (anchors whose plan has a caption) - (anchors whose plan has
\* a footnote).
C3_CountLaw ==
    CaptionDone =>
        Len(result) = Len(nodes)
                      - Cardinality({a \in DOMAIN merge_info : merge_info[a][1] # None})
                      - Cardinality({a \in DOMAIN merge_info : merge_info[a][2] # None})

\* an anchor was merged with both a caption and a footnote, and another block passed through
C3_Witness ==
    /\ CaptionDone
    /\ \E a \in DOMAIN merge_info : merge_info[a][1] # None /\ merge_info[a][2] # None
    /\ Len(result) >= 2
    /\ Len(result) = Len(nodes) - 2

\* C4: the index values of the returned blocks of both engines are 0..len-1 in output order.
C4_PositionDensity ==
    pc = "done" =>
        \A k \in DOMAIN result :
            "index" \in DOMAIN result[k].metadata /\ result[k].metadata["index"] = k - 1

\* the layout engine returned blocks in another order than given, of two files whose input
\* positions repeat
C4_Witness ==
    /\ LayoutDone
    /\ Len(result) = 3
    /\ \E j, k \in DOMAIN document : j # k /\ IndexOf(document[j]) = IndexOf(document[k])
    /\ \E k \in DOMAIN result : result[k].id # document[k].id

\* C5: a block consumed by a plan is not in the output, and a block that is not consumed is in
\* the output exactly once: as itself, or as the merged block of an anchor with a plan.
C5_ClaimedRemovedOthersOnce ==
    CaptionDone =>
        \A j \in 0..(Len(nodes) - 1) :
            LET own == {k \in DOMAIN result : result[k].id = At(nodes, j).id}
                merged == {k \in DOMAIN result : result[k].id = FreshId(At(nodes, j).id)}
            IN IF j \in ClaimedByPlan THEN own = {} /\ merged = {}
               ELSE IF j \in DOMAIN merge_info THEN own = {} /\ Cardinality(merged) = 1
               ELSE Cardinality(own) = 1 /\ merged = {}

\* the output holds a merged block and a block passed through, and the input held a consumed one
C5_Witness ==
    /\ CaptionDone /\ run = 1
    /\ ClaimedByPlan # {}
    /\ \E k \in DOMAIN result : result[k].id > 100
    /\ \E k \in DOMAIN result : result[k].id < 100 /\ TypeOf(result[k]) = "text"

\* C6: a block whose text_level is greater than 1 in the input has the same text_level in the
\* output, whatever its type or text.
C6_FinalizedImmunity ==
    engine = "layout" =>
        \A k \in DOMAIN result :
            TextLevel(InputOf(k)) > 1 =>
                /\ "text_level" \in DOMAIN result[k].metadata
                /\ result[k].metadata["text_level"] = InputOf(k).metadata["text_level"]

\* a returned block had a text_level above 1 and a text that the suppression patterns match
C6_Witness ==
    /\ LayoutDone
    /\ \E k \in DOMAIN result : TextLevel(InputOf(k)) > 1 /\ Suppressed(InputOf(k))

\* C7 as stated: a block whose text matches a timestamp or table-of-contents pattern ends with
\* text_level 0, whatever its text_level was.
C7_SuppressedAlwaysZero ==
    LayoutDone =>
        \A k \in DOMAIN result : Suppressed(result[k]) => TextLevel(result[k]) = 0

\* C7 amended: a block whose text matches a timestamp or table-of-contents pattern and whose
\* text_level in the input is 0, 1 or absent ends with text_level 0, also when its text matches
\* a numbering pattern; with a text_level above 1 it keeps that level.
C7_SuppressedUnlessFinalized ==
    LayoutDone =>
        \A k \in DOMAIN result :
            Suppressed(InputOf(k)) =>
                /\ "text_level" \in DOMAIN result[k].metadata
                /\ result[k].metadata["text_level"] =
                       (IF TextLevel(InputOf(k)) > 1 THEN TextLevel(InputOf(k)) ELSE 0)

\* a returned text block had text_level 1, a table-of-contents text and a numbering label
C7_Witness ==
    /\ LayoutDone
    /\ \E k \in DOMAIN result :
           /\ Suppressed(InputOf(k))
           /\ TextLevel(InputOf(k)) = 1
           /\ TypeOf(InputOf(k)) = "text"
           /\ _calculate_level_by_regex(InputOf(k).text) > 0

\* the score of C8: 2 for a content keyword at the start, 3 for a numbering pattern at the start
ScoreAsClaimed(content, node_type) ==
    LET config == TYPE_CONFIG(node_type)
    IN (IF \E k \in DOMAIN config.content_keywords : StartsWith(content, config.content_keywords[k])
        THEN 2 ELSE 0)
       + (IF \E k \in DOMAIN config.patterns : ReMatch(config.patterns[k], content, TRUE)
          THEN 3 ELSE 0)

\* C8 as stated: when both neighbours qualify, each score is 2 (keyword at the start) plus 3
\* (numbering pattern at the start), hence one of 0, 2, 3, 5.
C8_ScoreAsClaimed ==
    (AnchorPlanned /\ loc.prev_caption_idx # None /\ loc.next_caption_idx # None) =>
        LET node_type == TypeOf(At(nodes, loc.anchor))
        IN /\ loc.prev_score = ScoreAsClaimed(Content(At(nodes, loc.anchor - 1)), node_type)
           /\ loc.next_score = ScoreAsClaimed(Content(At(nodes, loc.anchor + 1)), node_type)
           /\ {loc.prev_score, loc.next_score} \subseteq {0, 2, 3, 5}

\* C9: with both neighbours qualifying the higher score is chosen and the predecessor on equal
\* scores; with one neighbour qualifying it is chosen; with none there is no caption.
C9_CaptionChoice ==
    AnchorPlanned =>
        LET a == loc.anchor
            node_type == TypeOf(At(nodes, a))
            prevQ == Qualifies(a - 1, a, loc.seen)
            nextQ == Qualifies(a + 1, a, loc.seen)
            ps == CaptionScore(Content(At(nodes, a - 1)), node_type)
            ns == CaptionScore(Content(At(nodes, a + 1)), node_type)
        IN /\ (prevQ /\ nextQ /\ ps > ns) => loc.caption_idx = a - 1
           /\ (prevQ /\ nextQ /\ ns > ps) => loc.caption_idx = a + 1
           /\ (prevQ /\ nextQ /\ ps = ns) => loc.caption_idx = a - 1
           /\ (prevQ /\ ~nextQ) => loc.caption_idx = a - 1
           /\ (~prevQ /\ nextQ) => loc.caption_idx = a + 1
           /\ (~prevQ /\ ~nextQ) => loc.caption_idx = None

\* both neighbours qualified with equal scores and the predecessor was chosen
C9_Witness ==
    /\ AnchorPlanned
    /\ Qualifies(loc.anchor - 1, loc.anchor, loc.seen)
    /\ Qualifies(loc.anchor + 1, loc.anchor, loc.seen)
    /\ loc.prev_score = loc.next_score
    /\ loc.caption_idx = loc.anchor - 1

\* C10: the block examined as footnote is i+2 when the caption is i+1, and i+1 otherwise; it is
\* the footnote iff it exists, is text, is unclaimed and passes _is_footnote; nothing else is.
C10_FootnoteSlot ==
    AnchorPlanned =>
        LET a == loc.anchor
            slot == IF loc.caption_idx = a + 1 THEN a + 2 ELSE a + 1
            taken == /\ slot < Len(nodes)
                     /\ TypeOf(At(nodes, slot)) = "text"
                     /\ slot \notin loc.seen
                     /\ _is_footnote(At(nodes, slot))
        IN /\ loc.check_start = slot
           /\ taken => loc.footnote_idx = slot
           /\ ~taken => loc.footnote_idx = None

\* the caption is the successor, itself a footnote by content, and the footnote is the block
\* after it
C10_Witness ==
    /\ AnchorPlanned
    /\ loc.caption_idx = loc.anchor + 1
    /\ _is_footnote(At(nodes, loc.anchor + 1))
    /\ loc.footnote_idx = loc.anchor + 2

\* one step of the planning pass of a single call: the loop index never goes back, a plan is
\* recorded for the anchor under the loop index only, recorded plans and claims stay as they
\* are, and a new plan consumes no index that an earlier plan consumed
C11_Step ==
    (engine = "caption" /\ pc = "plan") =>
        /\ i' \in {i, i + 1}
        /\ merged_indices \subseteq merged_indices'
        /\ \A a \in DOMAIN merge_info : a \in DOMAIN merge_info' /\ merge_info'[a] = merge_info[a]
        /\ \A a \in DOMAIN merge_info' \ DOMAIN merge_info :
               /\ a = i /\ i' = i + 1
               /\ \A b \in DOMAIN merge_info : b < a
               /\ Consumed(merge_info'[a]) \cap ClaimedByPlan = {}

\* C11: anchors are planned in increasing index order and claims are irrevocable, so a block
\* claimed by anchor i is never claimed by a later anchor (anchor i+2 for the block i+1).
C11_FirstAnchorWins == [][C11_Step]_vars

\* anchor i+2 has just been planned; its predecessor i+1 is a caption for it by content but was
\* claimed by anchor i, and anchor i+2 did not take it
C11_Witness ==
    /\ AnchorPlanned
    /\ loc.anchor >= 2
    /\ (loc.anchor - 2) \in DOMAIN merge_info
    /\ (loc.anchor - 1) \in Consumed(merge_info[loc.anchor - 2])
    /\ _is_caption(At(nodes, loc.anchor - 1), TypeOf(At(nodes, loc.anchor)))
    /\ loc.prev_caption_idx = None
    /\ loc.caption_idx # loc.anchor - 1

\* the input block at index j goes through the merge pass untouched: no plan and no claim
PassedThrough(j) == j \notin DOMAIN merge_info /\ j \notin merged_indices

\* C12: an anchor without a plan and every unclaimed non-anchor block is emitted as the same
\* block (same identity, no new block), with text and every metadata key other than index
\* unchanged.
C12_PassThrough ==
    (CaptionDone /\ nodes # <<>>) =>
        \A j \in 0..(Len(nodes) - 1) :
            PassedThrough(j) =>
                \E k \in DOMAIN result :
                    /\ result[k].id = At(nodes, j).id
                    /\ result[k].text = At(nodes, j).text
                    /\ DOMAIN result[k].metadata = DOMAIN At(nodes, j).metadata \cup {"index"}
                    /\ \A key \in DOMAIN At(nodes, j).metadata \ {"index"} :
                           result[k].metadata[key] = At(nodes, j).metadata[key]

\* an anchor without a plan and a text block were passed through, after a merge that moved them
\* to a lower position
C12_Witness ==
    /\ CaptionDone
    /\ DOMAIN merge_info # {}
    /\ \E j \in 0..(Len(nodes) - 1) : \E k \in DOMAIN result :
           /\ PassedThrough(j) /\ TypeOf(At(nodes, j)) \in AnchorTypes
           /\ result[k].id = At(nodes, j).id
           /\ result[k].metadata["index"] # At(nodes, j).metadata["index"]
    /\ \E j \in 0..(Len(nodes) - 1) : PassedThrough(j) /\ TypeOf(At(nodes, j)) = "text"

\* the block of result made for the anchor at index a of nodes
MergedOf(a) == CHOOSE r \in {result[k] : k \in DOMAIN result} : r.id = FreshId(At(nodes, a).id)

\* the trimmed text of the caption (part = 1) or footnote (part = 2) of the plan of anchor a, as
\* a list of one line, or of none when the plan has no such part
PlanLine(a, part) ==
    IF merge_info[a][part] # None THEN <<Strip(At(nodes, merge_info[a][part]).text)>> ELSE <<>>

\* the original content of the anchor at index a as a list of one line, or of none when empty
BodyLine(a) == IF At(nodes, a).text # <<>> THEN <<At(nodes, a).text>> ELSE <<>>

\* C13: the text of a merged table or equation is the caption's trimmed text (if a caption was
\* found), the anchor's original text (if not empty) and the footnote's trimmed text (if a
\* footnote was found), in this order, joined by line breaks.
C13_TableEquationText ==
    CaptionDone =>
        \A a \in DOMAIN merge_info :
            TypeOf(At(nodes, a)) \in {"table", "equation"} =>
                MergedOf(a).text = JoinLines(PlanLine(a, 1) \o BodyLine(a) \o PlanLine(a, 2))

\* a table was merged with a caption and a footnote whose text ends with a blank: its text has
\* three lines, the last one trimmed
C13_Witness ==
    /\ CaptionDone
    /\ \E a \in DOMAIN merge_info :
           /\ TypeOf(At(nodes, a)) = "table"
           /\ merge_info[a][1] # None /\ merge_info[a][2] # None
           /\ At(nodes, a).text # <<>>
           /\ Strip(At(nodes, merge_info[a][2]).text) # At(nodes, merge_info[a][2]).text
           /\ MergedOf(a).text = Strip(At(nodes, merge_info[a][1]).text) \o <<NL>> \o At(nodes, a).text
                                 \o <<NL>> \o Strip(At(nodes, merge_info[a][2]).text)

\* C14: the text of a merged image is, with save_image, the reference ![caption](image_path)
\* with the caption's trimmed text or an empty description, and without save_image the caption's
\* trimmed text or nothing; the footnote's trimmed text, if any, is the last line, and the
\* image's own text is not part of it.
C14_ImageText ==
    CaptionDone =>
        \A a \in DOMAIN merge_info :
            TypeOf(At(nodes, a)) = "image" =>
                LET description == IF merge_info[a][1] # None
                                   THEN Strip(At(nodes, merge_info[a][1]).text) ELSE <<>>
                    reference == <<"!", "[">> \o description \o <<"]", "(">>
                                 \o Get(At(nodes, a).metadata, "image_path", <<>>) \o <<")">>
                    head == IF save_image THEN <<reference>> ELSE PlanLine(a, 1)
                IN MergedOf(a).text = JoinLines(head \o PlanLine(a, 2))

\* an image with a text of its own was merged with a caption and a footnote while save_image was
\* set: its text is the reference line and the footnote line
C14_Witness ==
    /\ CaptionDone /\ save_image
    /\ \E a \in DOMAIN merge_info :
           /\ TypeOf(At(nodes, a)) = "image"
           /\ At(nodes, a).text # <<>>
           /\ merge_info[a][1] # None /\ merge_info[a][2] # None
           /\ MergedOf(a).text = <<"!", "[">> \o Strip(At(nodes, merge_info[a][1]).text) \o <<"]", "(">>
                                 \o At(nodes, a).metadata["image_path"] \o <<")", NL>>
                                 \o Strip(At(nodes, merge_info[a][2]).text)

\* the place in document of the block that result[k] is
InputPos(k) == CHOOSE j \in DOMAIN document : document[j].id = result[k].id

\* C15: the blocks returned by LayoutNodeParser.forward are the blocks of the input, each once;
\* they are ordered by file name, then by the index they had in the input, then by their place
\* in the input.
C15_Permutation ==
    LayoutDone =>
        /\ Len(result) = Len(document)
        /\ \A j \in DOMAIN document :
               Cardinality({k \in DOMAIN result : result[k].id = document[j].id}) = 1
        /\ \A k, l \in DOMAIN result :
               k < l =>
                   LET a == document[InputPos(k)]
                       b == document[InputPos(l)]
                   IN \/ FileName(a) < FileName(b)
                      \/ FileName(a) = FileName(b) /\ IndexOf(a) < IndexOf(b)
                      \/ FileName(a) = FileName(b) /\ IndexOf(a) = IndexOf(b) /\ InputPos(k) < InputPos(l)

\* the input had a block of a later file before a block of an earlier file, and two blocks of
\* one file; the output has them in another order than the input
C15_Witness ==
    /\ LayoutDone
    /\ \E j, k \in DOMAIN document : j < k /\ FileName(document[j]) > FileName(document[k])
    /\ \E j, k \in DOMAIN document : j < k /\ FileName(document[j]) = FileName(document[k])
    /\ \E k \in DOMAIN result : InputPos(k) # k

\* the block is outside the level computation: it is no text block, or its text_level is 0 or absent
OutsideLevelling(node) == TypeOf(node) # "text" \/ TextLevel(node) = 0

\* C16 as stated: every block that is no text block, and every text block whose text_level is 0
\* or absent, is returned with its text_level (absent read as 0) unchanged.
C16_PassThroughUnchanged ==
    LayoutDone =>
        \A k \in DOMAIN result :
            OutsideLevelling(InputOf(k)) => TextLevel(result[k]) = TextLevel(InputOf(k))

\* C16 amended: such a block keeps its text_level, an absent key staying absent, unless its
\* text_level is at most 1 and its text matches a timestamp or table-of-contents pattern; then
\* its text_level is written as 0, whatever its type.
C16_PassThroughUnlessSuppressed ==
    LayoutDone =>
        \A k \in DOMAIN result :
            OutsideLevelling(InputOf(k)) =>
                IF Suppressed(InputOf(k)) /\ TextLevel(InputOf(k)) <= 1
                THEN "text_level" \in DOMAIN result[k].metadata /\ result[k].metadata["text_level"] = 0
                ELSE /\ ("text_level" \in DOMAIN result[k].metadata) = ("text_level" \in DOMAIN InputOf(k).metadata)
                     /\ TextLevel(result[k]) = TextLevel(InputOf(k))

\* a table with text_level 1 and a text block without text_level, both with a numbered text that
\* no suppression pattern matches, were returned as they were
C16_Witness ==
    /\ LayoutDone
    /\ \E k \in DOMAIN result :
           /\ TypeOf(InputOf(k)) = "table" /\ TextLevel(InputOf(k)) = 1
           /\ ~Suppressed(InputOf(k)) /\ regex_level(InputOf(k)) > 1
           /\ result[k].metadata["text_level"] = 1
    /\ \E k \in DOMAIN result :
           /\ TypeOf(InputOf(k)) = "text" /\ "text_level" \notin DOMAIN InputOf(k).metadata
           /\ ~Suppressed(InputOf(k)) /\ regex_level(InputOf(k)) > 0
           /\ "text_level" \notin DOMAIN result[k].metadata

LevelDone == engine = "level" /\ pc = "done"

\* the characters C17 calls closing brackets
ClosingBrackets == {")", "<fwrparen>", "]", "<rlentic>", "}"}

RECURSIVE DotGroups(_)
\* n times: a literal dot and a numeric group
DotGroups(n) == IF n = 0 THEN <<>> ELSE <<Ch({"."}), Plus(DIGIT)>> \o DotGroups(n - 1)

\* the decimal label of depth d of C17: d numeric groups separated by dots, depth 1 a number and
\* a dot
LabelOfDepth(d) ==
    IF d = 1 THEN Cat(<<Bol, Plus(DIGIT), Ch({"."})>>) ELSE Cat(<<Bol, Plus(DIGIT)>> \o DotGroups(d - 1))

\* line begins with a label of depth d that is followed by the end of the line or by a
\* character that is neither a digit nor a closing bracket
LabelAccepted(line, d) ==
    \E e \in Ends(LabelOfDepth(d), line, {1}, FALSE) :
        e = Len(line) + 1 \/ line[e] \notin (UniDigits \cup ClosingBrackets)

\* the level C17 states for line: the deepest accepted depth of 4..1, or 0 when every label is
\* followed by a digit or a closing bracket
LevelAsClaimed(line) ==
    IF \E d \in 1..max_level : LabelAccepted(line, d)
    THEN SetMax({d \in 1..max_level : LabelAccepted(line, d)})
    ELSE 0

\* C17 as stated: for a first line that begins with a decimal label the level computation
\* returns the deepest depth (4 first, down to 1) whose label is followed by the end of the line
\* or by a character that is no digit and no closing bracket, and no depth when the label is
\* followed by a digit or a closing bracket.
C17_DecimalLevel ==
    LevelDone => returned_level = LevelAsClaimed(Strip(FirstLine(Strip(level_text))))

\* the block of the document that is the object id
InputBlock(id) == CHOOSE d \in {document[j] : j \in DOMAIN document} : d.id = id

ConcurrentDone == engine = "layout" /\ pc = "joined"

\* C18: when the groups of LayoutNodeParser.forward are parsed by one task per file, the tasks'
\* iterations interleaved in any order, and the tasks' lists are joined in the order of the
\* groups, the returned list (its order and every block's text_level) is the list the sequential
\* call returned; while the tasks run, what a task has made of a block is what the loop body
\* makes of that block alone, whatever the other tasks have done.
C18_PartitionIndependence ==
    /\ ConcurrentDone => concurrent_result = result
    /\ (engine = "layout" /\ pc = "tasks") =>
           \A g \in DOMAIN groups : \A k \in 1..task_i[g] :
               task_result[g][k] = ParseNode(InputBlock(task_result[g][k].id))

\* two tasks have run and their lists are joined, and each task changed a text_level
C18_Witness ==
    /\ ConcurrentDone
    /\ Len(groups) = 2
    /\ \A g \in 1..2 : \E k \in DOMAIN groups[g] :
           TextLevel(groups[g][k]) # TextLevel(SortedGroups(document)[g][k])

\* C19: LayoutNodeParser.forward called on the list it returned returns the same blocks in the
\* same order, each with the same index and the same text_level (the key absent where it was
\* absent).
C19_LayoutIdempotent ==
    (LayoutDone /\ run = 2) =>
        /\ Len(result) = Len(document)
        /\ \A k \in DOMAIN result :
               /\ result[k].id = document[k].id
               /\ Get(result[k].metadata, "index", None) = Get(document[k].metadata, "index", None)
               /\ Get(result[k].metadata, "text_level", None)
                      = Get(document[k].metadata, "text_level", None)

\* the second call has returned; the first call had levelled a block, suppressed another, and
\* the list holds blocks of two files
C19_Witness ==
    /\ LayoutDone /\ run = 2
    /\ \E j, k, l \in DOMAIN result :
           /\ TypeOf(result[j]) = "text" /\ result[j].text = TextScope /\ TextLevel(result[j]) = 2
           /\ result[k].text = TextScopeToc /\ TextLevel(result[k]) = 0
           /\ FileName(result[l]) # FileName(result[j])

\* C20: when the planning pass examines anchor i, the indices i+1 and i+2 are unclaimed (of the
\* indices the anchor looks at, only i-1 can be claimed already), so the claim test rejects no
\* successor caption candidate and no footnote candidate: both are what they would be with no
\* claim at all.
C20_SuccessorsUnclaimed ==
    AnchorPlanned =>
        /\ (loc.anchor + 1) \notin loc.seen
        /\ (loc.anchor + 2) \notin loc.seen
        /\ loc.next_caption_idx = NextCaptionIdx(nodes, loc.anchor, {})
        /\ loc.footnote_idx = FootnoteIdx(nodes, loc.check_start, {})

\* the anchor just examined lost its predecessor, a caption by content, to an earlier anchor,
\* and took its successor
C20_Witness ==
    /\ AnchorPlanned
    /\ (loc.anchor - 1) \in loc.seen
    /\ _is_caption(At(nodes, loc.anchor - 1), TypeOf(At(nodes, loc.anchor)))
    /\ loc.prev_caption_idx = None
    /\ loc.caption_idx = loc.anchor + 1

\* the first loop of _parse_nodes has ended
PlanningOver == engine = "caption" /\ (pc = "done" \/ (pc = "plan" /\ i = Len(nodes)))

\* the number of image, table and equation blocks of s
AnchorCount(s) == Cardinality({k \in DOMAIN s : TypeOf(s[k]) \in AnchorTypes})

\* C21: after the planning pass every recorded plan (c, f) of an anchor i has c absent, i-1 or
\* i+1, and f absent, i+1 or i+2, with f = i+2 only when c = i+1, f greater than i and
\* different from c; every claimed index holds a text block, so no image, table or equation
\* block is consumed and the returned list holds as many of them as the input.
C21_PlanWellFormed ==
    /\ PlanningOver =>
           /\ \A a \in DOMAIN merge_info :
                  LET c == merge_info[a][1]
                      f == merge_info[a][2]
                  IN /\ a \in 0..(Len(nodes) - 1) /\ TypeOf(At(nodes, a)) \in AnchorTypes
                     /\ c = None \/ (a > 0 /\ c = a - 1) \/ c = a + 1
                     /\ f = None \/ f = a + 1 \/ f = a + 2
                     /\ f = a + 2 => c = a + 1
                     /\ f # None => (f > a /\ f # c)
           /\ merged_indices = ClaimedByPlan
           /\ \A j \in merged_indices :
                  j \in 0..(Len(nodes) - 1) /\ TypeOf(At(nodes, j)) = "text"
    /\ CaptionDone => AnchorCount(result) = AnchorCount(nodes)

\* the call has returned; of two anchors one was planned with the caption after it and the
\* footnote after the caption
C21_Witness ==
    /\ CaptionDone
    /\ AnchorCount(nodes) = 2
    /\ AnchorCount(result) = 2
    /\ \E a \in DOMAIN merge_info : merge_info[a][1] = a + 1 /\ merge_info[a][2] = a + 2
====
